---- MODULE Spec2Model ----
(***************************************************************************)
(* Roster balancing and team assignment of BendoWithMasterApp.py: one      *)
(* script run over an uploaded daily sheet (clean, filter, quotas, shuffle *)
(* and rank sort, three balancing passes, rivalry separation, truncation,  *)
(* snake draft, combine) and the "Shuffle Teams Again" rerun.              *)
(***************************************************************************)
EXTENDS Integers, Sequences, FiniteSets, TLC

VARIABLES
    sheet,          \* rows of the selected daily sheet as read (raw cells)
    pc,             \* position of the script run
    available,      \* DataFrame `available`
    total_players,
    target_f, target_d,
    seed,           \* the permutation drawn by available.sample(frac=1)
    pool_d, pool_f,
    messages,       \* st.warning / st.info balancing messages, in order
    pair_pos,       \* position of the `for p1_name, p2_name in rival_pairs` loop
    pair_index,
    pre_team_a, pre_team_b,
    rivalry_notes,
    selected_d, selected_f,
    cuts_d, cuts_f,
    d_a, d_b, f_a, f_b,
    team_a, team_b

vars == <<sheet, pc, available, total_players, target_f, target_d, seed,
          pool_d, pool_f, messages, pair_pos, pair_index, pre_team_a,
          pre_team_b, rivalry_notes, selected_d, selected_f, cuts_d, cuts_f,
          d_a, d_b, f_a, f_b, team_a, team_b>>

----------------------------------------------------------------------------
(* Bounds of the explored inputs *)

MaxD == 8       \* most ordinary first-choice-D rows in a sheet
MaxF == 14      \* most ordinary first-choice-F rows in a sheet
MaxSeed == 1    \* permutations 0..MaxSeed of sample(frac=1)
MaxTotal == 60  \* largest head count fed to the quota computation alone
MinBigD == 9    \* fewest ordinary first-choice-D rows in a sheet over both quotas
MaxBigD == 17   \* most ordinary first-choice-D rows in such a sheet
MinBigF == 16   \* fewest ordinary first-choice-F rows in such a sheet
MaxBigF == 19   \* most ordinary first-choice-F rows in such a sheet

(* Program constants *)

BASE_F == 12
BASE_D == 8
MIN_D_CRITICAL == 6

rival_pairs == << <<"Mike Tonietto", "Jamie Devin">>, <<"Mark Hicks", "Gary Fera">> >>

----------------------------------------------------------------------------
(* Generic helpers *)

Min(a, b) == IF a <= b THEN a ELSE b
Max(a, b) == IF a >= b THEN a ELSE b

Range(s) == {s[i] : i \in 1..Len(s)}

\* DataFrame.head(n) and DataFrame.iloc[n:]
Head_n(s, n) == SubSeq(s, 1, Min(n, Len(s)))
Tail_n(s, n) == SubSeq(s, Min(n, Len(s)) + 1, Len(s))

\* DataFrame.index of a frame: the set of its row labels
IndexOf(s) == {s[i].idx : i \in 1..Len(s)}

\* DataFrame.drop(labels): every row carrying one of the labels goes
Drop(s, labels) == SelectSeq(s, LAMBDA r : r.idx \notin labels)

----------------------------------------------------------------------------
(* Cell cleaning, over the cell values the sheets of the model contain *)

\* str.strip().str.upper()
StripUpper(s) ==
    CASE s = "y" -> "Y"
      [] s = "Yes" -> "YES"
      [] s = "no" -> "NO"
      [] s = " d" -> "D"
      [] s = "d" -> "D"
      [] s = "f " -> "F"
      [] s = "f" -> "F"
      [] s = "g" -> "G"
      [] s = "r" -> "R"
      [] s = "s " -> "S"
      [] OTHER -> s

\* str.strip()
Strip(s) ==
    CASE s = " Mike Tonietto" -> "Mike Tonietto"
      [] s = "Gary Fera " -> "Gary Fera"
      [] OTHER -> s

\* str.lower().str.strip()
LowerStrip(s) ==
    CASE s \in {"Mike Tonietto", "MIKE TONIETTO", " Mike Tonietto"} -> "mike tonietto"
      [] s = "Jamie Devin" -> "jamie devin"
      [] s = "Mark Hicks" -> "mark hicks"
      [] s \in {"Gary Fera", "Gary Fera "} -> "gary fera"
      [] OTHER -> s

\* str.startswith('Y')
StartsWithY(s) == s \in {"Y", "YES"}

\* Code points of the leading characters of a name: enough of the string to
\* order the names the sheets of the model contain as Python orders them
\* (the d rows run to MaxTotal in the sheets of the quota computation).
Digits(i) == IF i < 10 THEN <<48 + i>> ELSE <<48 + (i \div 10), 48 + (i % 10)>>

NameTable ==
    {<<"Gary Fera", <<71, 97>>>>, <<"Jamie Devin", <<74, 97>>>>,
     <<"MIKE TONIETTO", <<77, 73>>>>, <<"Mark Hicks", <<77, 97>>>>,
     <<"Mike Tonietto", <<77, 105>>>>}
    \cup {<<"d" \o ToString(i), <<100>> \o Digits(i)>> : i \in 1..(MaxD + MaxTotal)}
    \cup {<<"f" \o ToString(i), <<102>> \o Digits(i)>> : i \in 1..(MaxF + MaxBigF)}
    \cup {<<"g1", <<103, 49>>>>, <<"x1", <<120, 49>>>>}

CodePoints == [n \in {p[1] : p \in NameTable} |-> (CHOOSE p \in NameTable : p[1] = n)[2]]

\* Python's str <: lexicographic on code points, a proper prefix first
RECURSIVE SeqLess(_, _)
SeqLess(a, b) ==
    IF b = <<>> THEN FALSE
    ELSE IF a = <<>> THEN TRUE
    ELSE IF a[1] # b[1] THEN a[1] < b[1]
    ELSE SeqLess(Tail(a), Tail(b))

StrLess(a, b) == a # b /\ SeqLess(CodePoints[a], CodePoints[b])

----------------------------------------------------------------------------
(* The sheets the model explores *)

SecondPatterns == {"none", "dense"}

HasSecond(i, pat) ==
    CASE pat = "none" -> FALSE
      [] pat = "dense" -> i % 2 = 1

\* an ordinary first-choice-D row
DRow(i, pat) ==
    [Name |-> "d" \o ToString(i),
     Availability |-> IF i % 3 = 0 THEN "Yes" ELSE "Y",
     Choice1 |-> IF i % 2 = 0 THEN "d" ELSE "D",
     Choice2 |-> IF HasSecond(i, pat) THEN "f " ELSE "",
     RegSpare |-> IF i % 4 = 0 THEN "S" ELSE "R",
     Score |-> (i * 3) % 5]

\* an ordinary first-choice-F row
FRow(i, pat) ==
    [Name |-> "f" \o ToString(i),
     Availability |-> IF i % 4 = 0 THEN "y" ELSE "Y",
     Choice1 |-> IF i % 3 = 0 THEN "f " ELSE "F",
     Choice2 |-> IF HasSecond(i, pat) THEN " d" ELSE "",
     RegSpare |-> IF i % 5 = 0 THEN "s " ELSE IF i % 2 = 0 THEN "r" ELSE "R",
     Score |-> (i * 2) % 5]

\* the rows of the four players rival_pairs names
RivalRow(name) ==
    CASE name = "Mike Tonietto" ->
            [Name |-> " Mike Tonietto", Availability |-> "Y", Choice1 |-> "F",
             Choice2 |-> "D", RegSpare |-> "R", Score |-> 5]
      [] name = "Jamie Devin" ->
            [Name |-> "Jamie Devin", Availability |-> "Yes", Choice1 |-> "D",
             Choice2 |-> "F", RegSpare |-> "R", Score |-> 3]
      [] name = "Mark Hicks" ->
            [Name |-> "Mark Hicks", Availability |-> "Y", Choice1 |-> "F",
             Choice2 |-> "", RegSpare |-> "S", Score |-> 2]
      [] name = "Gary Fera" ->
            [Name |-> "Gary Fera ", Availability |-> "Y", Choice1 |-> "d",
             Choice2 |-> "F", RegSpare |-> "R", Score |-> 2]

RivalNames == <<"Mike Tonietto", "Jamie Devin", "Mark Hicks", "Gary Fera">>

\* which of the four are signed up, and the extra row of the sheet
Scenarios ==
    {<<{}, "none">>, <<{}, "goalie">>, <<{}, "absent">>,
     <<{"Mike Tonietto"}, "none">>,
     <<{"Mike Tonietto"}, "namesakeF">>,
     <<{"Mike Tonietto", "Jamie Devin"}, "none">>,
     <<{"Mike Tonietto", "Jamie Devin"}, "namesakeD">>,
     <<{"Mike Tonietto", "Jamie Devin"}, "namesakeF">>,
     <<{"Mark Hicks", "Gary Fera"}, "none">>,
     <<{"Mike Tonietto", "Jamie Devin", "Mark Hicks", "Gary Fera"}, "none">>,
     <<{"Mike Tonietto", "Jamie Devin", "Mark Hicks", "Gary Fera"}, "goalie">>}

\* one more row: a second sign-up under a rival's name in other case, a
\* goalie, or a player who is not available
ExtraRow(x) ==
    CASE x = "namesakeD" ->
            [Name |-> "MIKE TONIETTO", Availability |-> "Y", Choice1 |-> "D",
             Choice2 |-> "", RegSpare |-> "R", Score |-> 4]
      [] x = "namesakeF" ->
            [Name |-> "MIKE TONIETTO", Availability |-> "Y", Choice1 |-> "F",
             Choice2 |-> "", RegSpare |-> "R", Score |-> 4]
      [] x = "goalie" ->
            [Name |-> "g1", Availability |-> "Y", Choice1 |-> "g",
             Choice2 |-> "", RegSpare |-> "R", Score |-> 3]
      [] x = "absent" ->
            [Name |-> "x1", Availability |-> "no", Choice1 |-> "D",
             Choice2 |-> "F", RegSpare |-> "R", Score |-> 4]

BuildSheet(nD, nF, pat, rivals, extra) ==
    [i \in 1..nD |-> DRow(i, pat)]
    \o [i \in 1..nF |-> FRow(i, pat)]
    \o SelectSeq([k \in 1..Len(RivalNames) |-> RivalRow(RivalNames[k])],
                 LAMBDA r : Strip(r.Name) \in rivals)
    \o (IF extra = "none" THEN <<>> ELSE <<ExtraRow(extra)>>)

----------------------------------------------------------------------------
(* The pipeline's pure steps *)

\* A frame row carries the columns the script writes after cleaning (the
\* index label idx, Status_Rank, Position) and `row`, the sheet row it was read
\* from; the cleaned columns of lines 158-176 are read through `row`, since no
\* step writes them again.
FullName(r) == Strip(sheet[r.row].Name)
Availability(r) == StripUpper(sheet[r.row].Availability)
Choice1(r) == StripUpper(sheet[r.row].Choice1)
Choice2(r) == StripUpper(sheet[r.row].Choice2)
RegSpare(r) == sheet[r.row].RegSpare
Score(r) == sheet[r.row].Score

\* lines 147-176: the daily frame df
df == [i \in 1..Len(sheet) |-> [row |-> i, idx |-> i - 1, Status_Rank |-> 0, Position |-> ""]]

\* line 220
FilterAvailable(frame) == SelectSeq(frame, LAMBDA r : StartsWithY(Availability(r)))

\* TargetsFor with the forward share not taken off the extras
TargetsForNoDeduct(total) ==
    IF total <= 20
    THEN [f |-> BASE_F, d |-> BASE_D]
    ELSE LET extras == total - 20
             add_to_f == Min(extras, 6)
             add_to_d == Min(extras, 4)
         IN [f |-> BASE_F + add_to_f, d |-> BASE_D + add_to_d]

\* lines 230-237
TargetsFor(total) ==
    IF total <= 20
    THEN [f |-> BASE_F, d |-> BASE_D]
    ELSE LET extras == total - 20
             add_to_f == Min(extras, 6)
             extras2 == extras - add_to_f
             add_to_d == Min(extras2, 4)
         IN [f |-> BASE_F + add_to_f, d |-> BASE_D + add_to_d]

\* line 258, sample(frac=1): the permutation numbered sd. Even sd keep the
\* direction, odd sd reverse it, and sd \div 2 rotates.
Sample(s, sd) ==
    LET n == Len(s)
        src(i) == LET p == IF sd % 2 = 1 THEN n + 1 - i ELSE i
                  IN ((p - 1 + (sd \div 2)) % n) + 1
    IN [i \in 1..n |-> s[src(i)]]

\* line 258, reset_index(drop=True)
ResetIndex(s) == [i \in 1..Len(s) |-> [s[i] EXCEPT !.idx = i - 1]]

\* line 259
StatusRank(x) == IF StripUpper(x) = "R" THEN 0 ELSE 1

WithStatusRank(s) ==
    [i \in 1..Len(s) |-> [s[i] EXCEPT !.Status_Rank = StatusRank(RegSpare(s[i]))]]

\* sort key of lines 260, 347, 348: Status_Rank ascending, Score descending
RankBefore(a, b) ==
    \/ a.Status_Rank < b.Status_Rank
    \/ a.Status_Rank = b.Status_Rank /\ Score(a) > Score(b)

\* sort key of lines 383, 384: Position ascending, Full Name ascending
NameBefore(a, b) ==
    \/ a.Position = "D" /\ b.Position = "F"
    \/ a.Position = b.Position /\ StrLess(FullName(a), FullName(b))

SortBefore(by, a, b) == IF by = "rank" THEN RankBefore(a, b) ELSE NameBefore(a, b)

\* where a stable sort puts x into sorted rows: before the first row x precedes
RECURSIVE InsertAt(_, _, _, _)
InsertAt(sorted, x, by, i) ==
    IF i > Len(sorted) THEN i
    ELSE IF SortBefore(by, x, sorted[i]) THEN i
    ELSE InsertAt(sorted, x, by, i + 1)

InsertBy(sorted, x, by) ==
    LET i == InsertAt(sorted, x, by, 1)
    IN SubSeq(sorted, 1, i - 1) \o <<x>> \o SubSeq(sorted, i, Len(sorted))

\* DataFrame.sort_values on several columns: a stable sort
RECURSIVE SortFrom(_, _, _, _)
SortFrom(s, by, i, sorted) ==
    IF i > Len(s) THEN sorted
    ELSE SortFrom(s, by, i + 1, InsertBy(sorted, s[i], by))

SortBy(s, by) == SortFrom(s, by, 1, <<>>)

\* sort_values whose result is not kept
SortByRankDropped(s) == s

SortByRank(s) == SortBy(s, "rank")

\* lines 262, 263
FirstChoice(s, pos) == SelectSeq(s, LAMBDA r : Choice1(r) = pos)

\* candidates of lines 268, 280, 292
SecondChoice(s, pos) == SelectSeq(s, LAMBDA r : Choice2(r) = pos)

\* CriticalFill taking its candidates from all of pool_f
CriticalFillAnyForward(pd, pf) ==
    IF Len(pd) < MIN_D_CRITICAL
    THEN LET needed == MIN_D_CRITICAL - Len(pd)
             candidates == pf
         IN IF candidates # <<>>
            THEN LET converts == Head_n(candidates, needed)
                 IN <<pd \o converts, Drop(pf, IndexOf(converts)), converts>>
            ELSE <<pd, pf, <<>>>>
    ELSE <<pd, pf, <<>>>>

\* lines 266-273: <<pool_d, pool_f, converts>>
CriticalFill(pd, pf) ==
    IF Len(pd) < MIN_D_CRITICAL
    THEN LET needed == MIN_D_CRITICAL - Len(pd)
             candidates == SecondChoice(pf, "D")
         IN IF candidates # <<>>
            THEN LET converts == Head_n(candidates, needed)
                 IN <<pd \o converts, Drop(pf, IndexOf(converts)), converts>>
            ELSE <<pd, pf, <<>>>>
    ELSE <<pd, pf, <<>>>>

\* ForwardFill taking what the forwards need, whatever the defense can spare
ForwardFillNoFloor(pd, pf, tf) ==
    IF Len(pf) < tf
    THEN LET needed == tf - Len(pf)
             candidates == SecondChoice(pd, "F")
         IN IF candidates # <<>>
            THEN LET converts == Head_n(candidates, needed)
                 IN <<Drop(pd, IndexOf(converts)), pf \o converts, converts>>
            ELSE <<pd, pf, <<>>>>
    ELSE <<pd, pf, <<>>>>

\* lines 275-285: <<pool_d, pool_f, converts>>
ForwardFill(pd, pf, tf) ==
    IF Len(pf) < tf
    THEN LET needed == tf - Len(pf)
             surplus_d == Len(pd) - MIN_D_CRITICAL
         IN IF surplus_d > 0
            THEN LET can_take == Min(needed, surplus_d)
                     candidates == SecondChoice(pd, "F")
                 IN IF candidates # <<>>
                    THEN LET converts == Head_n(candidates, can_take)
                         IN <<Drop(pd, IndexOf(converts)), pf \o converts, converts>>
                    ELSE <<pd, pf, <<>>>>
            ELSE <<pd, pf, <<>>>>
    ELSE <<pd, pf, <<>>>>

\* lines 287-297: <<pool_d, pool_f, converts>>
DefenseFill(pd, pf, tf, td) ==
    IF Len(pd) < td
    THEN LET d_shortage == td - Len(pd)
             surplus_f == Len(pf) - tf
         IN IF surplus_f > 0
            THEN LET amount_to_move == Min(d_shortage, surplus_f)
                     candidates == SecondChoice(pf, "D")
                 IN IF candidates # <<>>
                    THEN LET converts == Head_n(candidates, amount_to_move)
                         IN <<pd \o converts, Drop(pf, IndexOf(converts)), converts>>
                    ELSE <<pd, pf, <<>>>>
            ELSE <<pd, pf, <<>>>>
    ELSE <<pd, pf, <<>>>>

\* ExtractTag writing the row's first choice
ExtractTagFirstChoice(r, pool) == Choice1(r)

\* the position extract_player writes on the row it takes from a pool
ExtractTag(r, pool) == pool

\* lines 304-318: row is <<>> for None, else <<the extracted row>>
extract_player(name, pd_pool, pf_pool) ==
    LET name_key == LowerStrip(name)
        matches_d == SelectSeq(pd_pool, LAMBDA r : LowerStrip(FullName(r)) = name_key)
        matches_f == SelectSeq(pf_pool, LAMBDA r : LowerStrip(FullName(r)) = name_key)
    IN IF matches_d # <<>>
       THEN [row |-> <<[matches_d[1] EXCEPT !.Position = ExtractTag(matches_d[1], "D")]>>,
             pd |-> Drop(pd_pool, IndexOf(matches_d)),
             pf |-> pf_pool]
       ELSE IF matches_f # <<>>
       THEN [row |-> <<[matches_f[1] EXCEPT !.Position = ExtractTag(matches_f[1], "F")]>>,
             pd |-> pd_pool,
             pf |-> Drop(pf_pool, IndexOf(matches_f))]
       ELSE [row |-> <<>>, pd |-> pd_pool, pf |-> pf_pool]

\* SnakeLoop dealing A, B, A, B
RECURSIVE SnakeLoopAlternate(_, _, _, _)
SnakeLoopAlternate(players, i, team_a_list, team_b_list) ==
    IF i >= Len(players) THEN <<team_a_list, team_b_list>>
    ELSE IF i % 2 = 0
    THEN SnakeLoopAlternate(players, i + 1, Append(team_a_list, players[i + 1]), team_b_list)
    ELSE SnakeLoopAlternate(players, i + 1, team_a_list, Append(team_b_list, players[i + 1]))

\* SnakeLoop giving Team A three picks of every four
RECURSIVE SnakeLoopThreeOfFour(_, _, _, _)
SnakeLoopThreeOfFour(players, i, team_a_list, team_b_list) ==
    IF i >= Len(players) THEN <<team_a_list, team_b_list>>
    ELSE IF i % 4 # 1
    THEN SnakeLoopThreeOfFour(players, i + 1, Append(team_a_list, players[i + 1]), team_b_list)
    ELSE SnakeLoopThreeOfFour(players, i + 1, team_a_list, Append(team_b_list, players[i + 1]))

\* lines 17-22: the loop from index i on
RECURSIVE SnakeLoop(_, _, _, _)
SnakeLoop(players, i, team_a_list, team_b_list) ==
    IF i >= Len(players) THEN <<team_a_list, team_b_list>>
    ELSE IF i % 4 = 0 \/ i % 4 = 3
    THEN SnakeLoop(players, i + 1, Append(team_a_list, players[i + 1]), team_b_list)
    ELSE SnakeLoop(players, i + 1, team_a_list, Append(team_b_list, players[i + 1]))

\* lines 10-31: <<df_a, df_b>>
snake_draft(players) == SnakeLoop(ResetIndex(players), 0, <<>>, <<>>)

\* Needed forgetting the pinned players
NeededIgnoringPinned(target, total_pre) == target

\* lines 353, 354
Needed(target, total_pre) == Max(0, target - total_pre)

\* lines 362, 363
WithPosition(s, pos) == [i \in 1..Len(s) |-> [s[i] EXCEPT !.Position = pos]]

\* lines 350, 351
CountPosition(s, pos) == Len(SelectSeq(s, LAMBDA r : r.Position = pos))

\* lines 380-384: concat(ignore_index), sort_values, reset_index
Combine(pre, d, f) == ResetIndex(SortBy(ResetIndex(pre \o d \o f), "name"))

----------------------------------------------------------------------------
(* One run of the script over the uploaded sheet *)

Fresh ==
    /\ pc = "start"
    /\ available = <<>>
    /\ total_players = 0
    /\ target_f = 0
    /\ target_d = 0
    /\ seed = 0
    /\ pool_d = <<>>
    /\ pool_f = <<>>
    /\ messages = <<>>
    /\ pair_pos = 1
    /\ pair_index = 0
    /\ pre_team_a = <<>>
    /\ pre_team_b = <<>>
    /\ rivalry_notes = <<>>
    /\ selected_d = <<>>
    /\ selected_f = <<>>
    /\ cuts_d = <<>>
    /\ cuts_f = <<>>
    /\ d_a = <<>>
    /\ d_b = <<>>
    /\ f_a = <<>>
    /\ f_b = <<>>
    /\ team_a = <<>>
    /\ team_b = <<>>

Init ==
    /\ \E nD \in 0..MaxD, nF \in 0..MaxF, pat \in SecondPatterns, sc \in Scenarios :
            sheet = BuildSheet(nD, nF, pat, sc[1], sc[2])
    /\ Fresh

\* lines 158-220: clean the daily frame and keep the available rows
LoadAndFilter ==
    /\ pc = "start"
    /\ FilterAvailable(df) # <<>>
    /\ available' = FilterAvailable(df)
    /\ pc' = "available"
    /\ UNCHANGED <<sheet, total_players, target_f, target_d, seed, pool_d, pool_f,
                   messages, pair_pos, pair_index, pre_team_a, pre_team_b,
                   rivalry_notes, selected_d, selected_f, cuts_d, cuts_f,
                   d_a, d_b, f_a, f_b, team_a, team_b>>

\* lines 222-224: nobody is available, st.stop()
StopEmpty ==
    /\ pc = "start"
    /\ FilterAvailable(df) = <<>>
    /\ pc' = "stopped"
    /\ UNCHANGED <<sheet, available, total_players, target_f, target_d, seed,
                   pool_d, pool_f, messages, pair_pos, pair_index, pre_team_a,
                   pre_team_b, rivalry_notes, selected_d, selected_f, cuts_d,
                   cuts_f, d_a, d_b, f_a, f_b, team_a, team_b>>

\* lines 227-237
ComputeTargets ==
    /\ pc = "available"
    /\ total_players' = Len(available)
    /\ target_f' = TargetsFor(Len(available)).f
    /\ target_d' = TargetsFor(Len(available)).d
    /\ pc' = "targets"
    /\ UNCHANGED <<sheet, available, seed, pool_d, pool_f, messages, pair_pos,
                   pair_index, pre_team_a, pre_team_b, rivalry_notes, selected_d,
                   selected_f, cuts_d, cuts_f, d_a, d_b, f_a, f_b, team_a, team_b>>

\* lines 258-263: shuffle, rank sort, split by first choice
SortPools ==
    /\ pc = "targets"
    /\ \E sd \in 0..MaxSeed :
        LET sorted == SortByRank(WithStatusRank(ResetIndex(Sample(available, sd))))
        IN /\ seed' = sd
           /\ available' = sorted
           /\ pool_d' = FirstChoice(sorted, "D")
           /\ pool_f' = FirstChoice(sorted, "F")
    /\ pc' = "sorted"
    /\ UNCHANGED <<sheet, total_players, target_f, target_d, messages, pair_pos,
                   pair_index, pre_team_a, pre_team_b, rivalry_notes, selected_d,
                   selected_f, cuts_d, cuts_f, d_a, d_b, f_a, f_b, team_a, team_b>>

\* the message a pass shows when it moved somebody
Note(pass, converts) ==
    IF converts = <<>> THEN <<>> ELSE <<[pass |-> pass, moved |-> converts]>>

\* lines 266-273
CriticalFillPass ==
    /\ pc = "sorted"
    /\ LET r == CriticalFill(pool_d, pool_f)
       IN /\ pool_d' = r[1]
          /\ pool_f' = r[2]
          /\ messages' = messages \o Note("critical", r[3])
    /\ pc' = "pass1"
    /\ UNCHANGED <<sheet, available, total_players, target_f, target_d, seed,
                   pair_pos, pair_index, pre_team_a, pre_team_b, rivalry_notes,
                   selected_d, selected_f, cuts_d, cuts_f, d_a, d_b, f_a, f_b,
                   team_a, team_b>>

\* lines 275-285
ForwardFillPass ==
    /\ pc = "pass1"
    /\ LET r == ForwardFill(pool_d, pool_f, target_f)
       IN /\ pool_d' = r[1]
          /\ pool_f' = r[2]
          /\ messages' = messages \o Note("d_to_f", r[3])
    /\ pc' = "pass2"
    /\ UNCHANGED <<sheet, available, total_players, target_f, target_d, seed,
                   pair_pos, pair_index, pre_team_a, pre_team_b, rivalry_notes,
                   selected_d, selected_f, cuts_d, cuts_f, d_a, d_b, f_a, f_b,
                   team_a, team_b>>

\* lines 287-302, 320, 321
DefenseFillPass ==
    /\ pc = "pass2"
    /\ LET r == DefenseFill(pool_d, pool_f, target_f, target_d)
       IN /\ pool_d' = r[1]
          /\ pool_f' = r[2]
          /\ messages' = messages \o Note("f_to_d", r[3])
    /\ pc' = "rivals"
    /\ pair_pos' = 1
    /\ pair_index' = 0
    /\ pre_team_a' = <<>>
    /\ pre_team_b' = <<>>
    /\ rivalry_notes' = <<>>
    /\ UNCHANGED <<sheet, available, total_players, target_f, target_d, seed,
                   selected_d, selected_f, cuts_d, cuts_f, d_a, d_b, f_a, f_b,
                   team_a, team_b>>

\* lines 339-344: put an extracted row back at the end of the pool its tag names
\* (pos is the pool: "D" for pool_d, "F" for pool_f, the else of the test on 'D')
Restore(pool, obj, pos) ==
    IF obj = <<>> THEN pool
    ELSE IF (obj[1].Position = "D") = (pos = "D") THEN pool \o obj
    ELSE pool

\* lines 322-344: one iteration of the loop over rival_pairs
RivalPair ==
    /\ pc = "rivals"
    /\ pair_pos <= Len(rival_pairs)
    /\ LET p1_name == rival_pairs[pair_pos][1]
           p2_name == rival_pairs[pair_pos][2]
           e1 == extract_player(p1_name, pool_d, pool_f)
           e2 == extract_player(p2_name, e1.pd, e1.pf)
           p1_obj == e1.row
           p2_obj == e2.row
       IN IF p1_obj # <<>> /\ p2_obj # <<>>
          THEN LET higher == IF Score(p2_obj[1]) > Score(p1_obj[1]) THEN p2_obj[1] ELSE p1_obj[1]
                   lower == IF Score(p2_obj[1]) > Score(p1_obj[1]) THEN p1_obj[1] ELSE p2_obj[1]
               IN /\ pool_d' = e2.pd
                  /\ pool_f' = e2.pf
                  /\ IF pair_index % 2 = 0
                     THEN /\ pre_team_a' = Append(pre_team_a, higher)
                          /\ pre_team_b' = Append(pre_team_b, lower)
                          /\ rivalry_notes' = Append(rivalry_notes,
                                <<p1_name, p2_name, FullName(higher), "Red",
                                  FullName(lower), "White">>)
                     ELSE /\ pre_team_b' = Append(pre_team_b, higher)
                          /\ pre_team_a' = Append(pre_team_a, lower)
                          /\ rivalry_notes' = Append(rivalry_notes,
                                <<p1_name, p2_name, FullName(higher), "White",
                                  FullName(lower), "Red">>)
                  /\ pair_index' = pair_index + 1
          ELSE /\ pool_d' = Restore(Restore(e2.pd, p1_obj, "D"), p2_obj, "D")
               /\ pool_f' = Restore(Restore(e2.pf, p1_obj, "F"), p2_obj, "F")
               /\ UNCHANGED <<pair_index, pre_team_a, pre_team_b, rivalry_notes>>
    /\ pair_pos' = pair_pos + 1
    /\ UNCHANGED <<sheet, pc, available, total_players, target_f, target_d, seed,
                   messages, selected_d, selected_f, cuts_d, cuts_f, d_a, d_b,
                   f_a, f_b, team_a, team_b>>

\* lines 347-366: rank sort, truncate to the open quota, snake draft
Draft ==
    /\ pc = "rivals"
    /\ pair_pos > Len(rival_pairs)
    /\ LET sorted_d == SortByRank(pool_d)
           sorted_f == SortByRank(pool_f)
           total_pre_d == CountPosition(pre_team_a \o pre_team_b, "D")
           total_pre_f == CountPosition(pre_team_a \o pre_team_b, "F")
           needed_d == Needed(target_d, total_pre_d)
           needed_f == Needed(target_f, total_pre_f)
           sel_d == WithPosition(Head_n(sorted_d, needed_d), "D")
           sel_f == WithPosition(Head_n(sorted_f, needed_f), "F")
       IN /\ pool_d' = sorted_d
          /\ pool_f' = sorted_f
          /\ selected_d' = sel_d
          /\ selected_f' = sel_f
          /\ cuts_d' = Tail_n(sorted_d, needed_d)
          /\ cuts_f' = Tail_n(sorted_f, needed_f)
          /\ d_a' = snake_draft(sel_d)[1]
          /\ d_b' = snake_draft(sel_d)[2]
          /\ f_a' = snake_draft(sel_f)[1]
          /\ f_b' = snake_draft(sel_f)[2]
    /\ pc' = "drafted"
    /\ UNCHANGED <<sheet, available, total_players, target_f, target_d, seed,
                   messages, pair_pos, pair_index, pre_team_a, pre_team_b,
                   rivalry_notes, team_a, team_b>>

\* lines 369-384
CombineTeams ==
    /\ pc = "drafted"
    /\ team_a' = Combine(pre_team_a, d_a, f_a)
    /\ team_b' = Combine(pre_team_b, d_b, f_b)
    /\ pc' = "done"
    /\ UNCHANGED <<sheet, available, total_players, target_f, target_d, seed,
                   pool_d, pool_f, messages, pair_pos, pair_index, pre_team_a,
                   pre_team_b, rivalry_notes, selected_d, selected_f, cuts_d,
                   cuts_f, d_a, d_b, f_a, f_b>>

\* lines 387, 388: "Shuffle Teams Again" reruns the script on the same upload
Reshuffle ==
    /\ pc = "done"
    /\ sheet' = sheet
    /\ pc' = "start"
    /\ available' = <<>>
    /\ total_players' = 0
    /\ target_f' = 0
    /\ target_d' = 0
    /\ seed' = 0
    /\ pool_d' = <<>>
    /\ pool_f' = <<>>
    /\ messages' = <<>>
    /\ pair_pos' = 1
    /\ pair_index' = 0
    /\ pre_team_a' = <<>>
    /\ pre_team_b' = <<>>
    /\ rivalry_notes' = <<>>
    /\ selected_d' = <<>>
    /\ selected_f' = <<>>
    /\ cuts_d' = <<>>
    /\ cuts_f' = <<>>
    /\ d_a' = <<>>
    /\ d_b' = <<>>
    /\ f_a' = <<>>
    /\ f_b' = <<>>
    /\ team_a' = <<>>
    /\ team_b' = <<>>

Next ==
    \/ LoadAndFilter
    \/ StopEmpty
    \/ ComputeTargets
    \/ SortPools
    \/ CriticalFillPass
    \/ ForwardFillPass
    \/ DefenseFillPass
    \/ RivalPair
    \/ Draft
    \/ CombineTeams
    \/ Reshuffle

Spec == Init /\ [][Next]_vars

----------------------------------------------------------------------------
(* The quota computation alone, over head counts 0..MaxTotal *)

InitQuota ==
    /\ \E n \in 0..MaxTotal : sheet = [i \in 1..n |-> DRow(i, "none")]
    /\ Fresh

NextQuota ==
    \/ LoadAndFilter
    \/ StopEmpty
    \/ ComputeTargets

SpecQuota == InitQuota /\ [][NextQuota]_vars

----------------------------------------------------------------------------
(* The script over sheets of more players than the two quotas hold together *)

InitBig ==
    /\ \E nD \in MinBigD..MaxBigD, nF \in MinBigF..MaxBigF,
          pat \in SecondPatterns, sc \in Scenarios :
            sheet = BuildSheet(nD, nF, pat, sc[1], sc[2])
    /\ Fresh

NextBig ==
    \/ LoadAndFilter
    \/ ComputeTargets
    \/ SortPools
    \/ CriticalFillPass
    \/ ForwardFillPass
    \/ DefenseFillPass
    \/ RivalPair
    \/ Draft
    \/ CombineTeams
    \/ Reshuffle

SpecBig == InitBig /\ [][NextBig]_vars

----------------------------------------------------------------------------
(* Vocabulary of the properties *)

\* the sheet rows of a frame, in frame order
Rows(frame) == [k \in 1..Len(frame) |-> frame[k].row]

RowSet(frame) == {frame[k].row : k \in 1..Len(frame)}

\* how often sheet row i occurs in a frame
Occurs(frame, i) == Cardinality({k \in 1..Len(frame) : frame[k].row = i})

\* the sheet rows of the available players
AvailableRows == {i \in 1..Len(sheet) : StartsWithY(StripUpper(sheet[i].Availability))}

\* the available rows a position pool holds: first choice D or F
PoolRows == {i \in AvailableRows : StripUpper(sheet[i].Choice1) \in {"D", "F"}}

\* the rows signed up under a configured name
Named(name) == {i \in PoolRows : LowerStrip(Strip(sheet[i].Name)) = LowerStrip(name)}

Finished == pc = "done"

----------------------------------------------------------------------------
(* C1 *)

\* C1: when the run is finished, every available player is in exactly one of
\* Team A, Team B, Defense cuts, Forward cuts: once, and in no two of them.
C1_EveryAvailableExactlyOnce ==
    Finished =>
        \A i \in AvailableRows :
            Occurs(team_a \o team_b \o cuts_d \o cuts_f, i) = 1

----------------------------------------------------------------------------
(* C2 *)

\* C2: when the run is finished, for every rival pair with both names present
\* in the pools, every player under the one name and every player under the
\* other are on opposite teams (so none of them is cut or missing).
C2_RivalsOnOppositeTeams ==
    Finished =>
        \A k \in 1..Len(rival_pairs) :
            \A i \in Named(rival_pairs[k][1]), j \in Named(rival_pairs[k][2]) :
                \/ i \in RowSet(team_a) /\ j \in RowSet(team_b)
                   /\ i \notin RowSet(team_b) /\ j \notin RowSet(team_a)
                \/ i \in RowSet(team_b) /\ j \in RowSet(team_a)
                   /\ i \notin RowSet(team_a) /\ j \notin RowSet(team_b)

----------------------------------------------------------------------------
(* C3 *)

InPools(name) ==
    \E k \in 1..Len(pool_d \o pool_f) :
        LowerStrip(FullName((pool_d \o pool_f)[k])) = LowerStrip(name)

SameMembers(before, after) ==
    \A i \in RowSet(before) \cup RowSet(after) : Occurs(before, i) = Occurs(after, i)

\* C3: a step of the rival loop over a pair of which at most one name is found
\* in the pools leaves the members of pool_d and of pool_f as they were, pins
\* nobody and records no note.
C3_PartialPairLeavesPools ==
    [][(pc = "rivals" /\ pair_pos <= Len(rival_pairs)
        /\ ~(InPools(rival_pairs[pair_pos][1]) /\ InPools(rival_pairs[pair_pos][2])))
       => /\ SameMembers(pool_d, pool_d')
          /\ SameMembers(pool_f, pool_f')
          /\ pre_team_a' = pre_team_a
          /\ pre_team_b' = pre_team_b
          /\ rivalry_notes' = rivalry_notes]_vars

----------------------------------------------------------------------------
(* C4 *)

\* C4: the quotas are target_f = 12 + min(max(total - 20, 0), 6) and
\* target_d = 8 + min(max(total - 26, 0), 4): (12,8) at 18 and 20, (18,8) at
\* 26, (18,12) at 30 and above, never more than 30 together.
C4_QuotaClosedForm ==
    pc = "targets" =>
        /\ total_players >= 1
        /\ target_f = 12 + Min(Max(total_players - 20, 0), 6)
        /\ target_d = 8 + Min(Max(total_players - 26, 0), 4)
        /\ total_players \in {18, 20} => <<target_f, target_d>> = <<12, 8>>
        /\ total_players = 26 => <<target_f, target_d>> = <<18, 8>>
        /\ total_players >= 30 => <<target_f, target_d>> = <<18, 12>>
        /\ target_f + target_d <= 30

C4_Witness == pc = "targets" /\ total_players > 30 /\ target_d = 12

----------------------------------------------------------------------------
(* C5 *)

\* the rows of a ranked frame picked at the 0-based indices i with i % 4 in rems
PickedRows(frame, rems) ==
    LET at == [k \in 1..Len(frame) |-> <<k - 1, frame[k].row>>]
        kept == SelectSeq(at, LAMBDA p : (p[1] % 4) \in rems)
    IN [k \in 1..Len(kept) |-> kept[k][2]]

SnakeSplit(frame, a, b) ==
    /\ Rows(a) = PickedRows(frame, {0, 3})
    /\ Rows(b) = PickedRows(frame, {1, 2})
    /\ Len(a) + Len(b) = Len(frame)
    /\ \A k \in 1..Len(frame) : Occurs(a \o b, frame[k].row) = Occurs(frame, frame[k].row)
    /\ \A k \in 1..Len(a) : frame[a[k].idx + 1].row = a[k].row
    /\ \A k \in 1..Len(b) : frame[b[k].idx + 1].row = b[k].row
    /\ \A k \in 1..(Len(a) - 1) : a[k].idx < a[k + 1].idx
    /\ \A k \in 1..(Len(b) - 1) : b[k].idx < b[k + 1].idx
    /\ Len(frame) = 8 =>
        /\ Rows(a) = <<frame[1].row, frame[4].row, frame[5].row, frame[8].row>>
        /\ Rows(b) = <<frame[2].row, frame[3].row, frame[6].row, frame[7].row>>

\* C5: snake_draft gives the pick at 0-based index i to Team A when i mod 4 is
\* 0 or 3 and to Team B when it is 1 or 2; the two outputs hold every input
\* player once, each in input order (of 8: A = P1,P4,P5,P8, B = P2,P3,P6,P7).
C5_SnakePattern ==
    pc \in {"drafted", "done"} =>
        /\ SnakeSplit(selected_d, d_a, d_b)
        /\ SnakeSplit(selected_f, f_a, f_b)

C5_Witness == pc = "drafted" /\ Len(selected_d) = 8 /\ Len(selected_f) > 8

----------------------------------------------------------------------------
(* C6 *)

SecondIs(i, pos) == StripUpper(sheet[i].Choice2) = pos

\* the rows of a frame whose second choice is pos, in frame order
CandidateRows(frame, pos) == Rows(SelectSeq(frame, LAMBDA r : SecondIs(r.row, pos)))

\* the rows of a frame without the rows of a set, in frame order
RowsWithout(frame, gone) == Rows(SelectSeq(frame, LAMBDA r : r.row \notin gone))

\* C6: the critical defense fill moves, when |pool_d| < 6, exactly
\* min(6 - |pool_d|, c) players from pool_f to pool_d, c the number of pool_f
\* players with second choice D: the first of them in pool_f order and nobody
\* else; pool_f shrinks by as many. With |pool_d| >= 6 it moves nobody.
C6_CriticalFillMoves ==
    [][pc = "sorted" =>
        LET cand == CandidateRows(pool_f, "D")
            k == IF Len(pool_d) < 6 THEN Min(6 - Len(pool_d), Len(cand)) ELSE 0
            moved == RowSet(pool_f) \ RowSet(pool_f')
        IN /\ moved = {cand[j] : j \in 1..k}
           /\ Cardinality(moved) = k
           /\ \A i \in moved : SecondIs(i, "D")
           /\ Rows(pool_d') = Rows(pool_d) \o SubSeq(cand, 1, k)
           /\ Rows(pool_f') = RowsWithout(pool_f, moved)
           /\ Len(pool_f') = Len(pool_f) - k
           /\ Len(pool_d') = Len(pool_d) + k]_vars

MovedIn(pass) ==
    {m \in Range(messages) : m.pass = pass}

C6_Witness ==
    /\ pc = "pass1"
    /\ \E m \in MovedIn("critical") : Len(m.moved) >= 2
    /\ CandidateRows(pool_f, "D") # <<>>
    /\ Len(pool_d) = 6

----------------------------------------------------------------------------
(* C7 *)

\* C7: the forward fill moves players from pool_d to pool_f only when
\* |pool_f| < target_f and |pool_d| > 6, at most
\* min(target_f - |pool_f|, |pool_d| - 6) of them, all with second choice F;
\* when it moves anybody, |pool_d| >= 6 and |pool_f| <= target_f afterwards.
C7_ForwardFillKeepsFloor ==
    [][pc = "pass1" =>
        LET moved == RowSet(pool_d) \ RowSet(pool_d')
            n == Cardinality(moved)
        IN /\ moved # {} => Len(pool_f) < target_f /\ Len(pool_d) > 6
           /\ moved # {} => n <= Min(target_f - Len(pool_f), Len(pool_d) - 6)
           /\ \A i \in moved : SecondIs(i, "F")
           /\ Rows(pool_d') = RowsWithout(pool_d, moved)
           /\ RowSet(pool_f') = RowSet(pool_f) \cup moved
           /\ Len(pool_f') = Len(pool_f) + n
           /\ Len(pool_d') = Len(pool_d) - n
           /\ moved # {} => Len(pool_d') >= 6 /\ Len(pool_f') <= target_f]_vars

C7_Witness ==
    /\ pc = "pass2"
    /\ \E m \in MovedIn("d_to_f") : Len(m.moved) >= 2
    /\ Len(pool_d) = 6
    /\ Len(pool_f) < target_f

----------------------------------------------------------------------------
(* C8 *)

Tagged(frame, pos) == Cardinality({k \in 1..Len(frame) : frame[k].Position = pos})

RankKey(r) == <<StatusRank(sheet[r.row].RegSpare), sheet[r.row].Score>>

\* regulars before spares, then the higher score first
InRankOrder(frame) ==
    \A k \in 1..(Len(frame) - 1) :
        LET a == RankKey(frame[k])
            b == RankKey(frame[k + 1])
        IN a[1] < b[1] \/ (a[1] = b[1] /\ a[2] >= b[2])

Composition(pos, target, pool, selected, cuts) ==
    LET pinned == Tagged(pre_team_a \o pre_team_b, pos)
        block == Max(0, target - pinned)
    IN /\ InRankOrder(pool)
       /\ Rows(selected) = SubSeq(Rows(pool), 1, Min(block, Len(pool)))
       /\ Rows(cuts) = SubSeq(Rows(pool), Min(block, Len(pool)) + 1, Len(pool))
       /\ \A k \in 1..Len(selected) : selected[k].Position = pos
       /\ Finished =>
            /\ Tagged(team_a \o team_b, pos) = pinned + Len(selected)
            /\ Tagged(team_a \o team_b, pos) <= target
            /\ cuts # <<>> => Tagged(team_a \o team_b, pos) = target

\* C8: per position P the drafted block is the first max(0, target_P - pinned_P)
\* players of the rank-sorted residual pool_P and the rest of pool_P are the
\* cuts for P; the teams never hold more than target_P players tagged P, and
\* hold exactly target_P of them whenever somebody is cut at P.
C8_BlockAndCuts ==
    pc \in {"drafted", "done"} =>
        /\ Composition("D", target_d, pool_d, selected_d, cuts_d)
        /\ Composition("F", target_f, pool_f, selected_f, cuts_f)

C8_Witness ==
    /\ Finished
    /\ cuts_f # <<>>
    /\ Tagged(pre_team_a \o pre_team_b, "F") > 0
    /\ Tagged(pre_team_a \o pre_team_b, "D") > 0

----------------------------------------------------------------------------
(* C9 *)

Pinned == Range(pre_team_a \o pre_team_b)

\* a balancing pass moved sheet row i to the other pool
MovedByBalancing(i) == \E m \in Range(messages) : i \in RowSet(m.moved)

\* C9 as claimed: every pinned player is tagged with the player's own first
\* choice, also when a balancing pass moved the player before the separation.
C9_PinnedTagIsFirstChoice ==
    \A p \in Pinned : p.Position = StripUpper(sheet[p.row].Choice1)

\* C9: every pinned player is tagged D or F with the position of the pool the
\* player was taken from: the player's first choice, unless a balancing pass
\* moved the player, and then the other position, the player's second choice.
C9_PinnedTagIsPoolPosition ==
    \A p \in Pinned :
        /\ p.Position \in {"D", "F"}
        /\ IF MovedByBalancing(p.row)
           THEN /\ p.Position = StripUpper(sheet[p.row].Choice2)
                /\ p.Position # StripUpper(sheet[p.row].Choice1)
           ELSE p.Position = StripUpper(sheet[p.row].Choice1)

C9_Witness ==
    /\ \E p \in Pinned : MovedByBalancing(p.row)
    /\ \E p \in Pinned : ~MovedByBalancing(p.row)

----------------------------------------------------------------------------
(* C10 *)

RankKeys(frame) == [k \in 1..Len(frame) |-> RankKey(frame[k])]

\* the rank-sorted list of the run that draws the identity permutation
UnshuffledRun == SortByRank(WithStatusRank(ResetIndex(Sample(FilterAvailable(df), 0))))

\* C10: whatever permutation a run draws, its quotas are those of the head
\* count and its rank-sorted list has the (status, score) sequence of the run
\* that draws the identity permutation, over the same players: the permutation
\* only reorders players of equal status and score.
C10_ShuffleBreaksTiesOnly ==
    pc \in {"sorted", "pass1", "pass2", "rivals", "drafted", "done"} =>
        /\ target_f = 12 + Min(Max(Cardinality(AvailableRows) - 20, 0), 6)
        /\ target_d = 8 + Min(Max(Cardinality(AvailableRows) - 26, 0), 4)
        /\ InRankOrder(available)
        /\ RankKeys(available) = RankKeys(UnshuffledRun)
        /\ RowSet(available) = AvailableRows
        /\ Len(available) = Cardinality(AvailableRows)
        /\ \A k \in 1..Len(available) :
              available[k].Status_Rank = RankKey(available[k])[1]

C10_Witness ==
    /\ pc = "sorted"
    /\ seed = 1
    /\ Rows(available) # Rows(UnshuffledRun)
    /\ Len(available) > 20

----------------------------------------------------------------------------
(* C11 *)

\* the players the finished teams hold at a position
Rostered(pos) == Tagged(team_a \o team_b, pos)

\* a cut player whose second choice is pos
CutWithSecond(cuts, pos) == \E k \in 1..Len(cuts) : SecondIs(cuts[k].row, pos)

\* C11: when the run is finished, nobody is cut at one position while the
\* other position is below its quota and is the cut player's second choice:
\* with fewer than target_d players rostered at D no cut forward has second
\* choice D, and with fewer than target_f rostered at F no cut defender has
\* second choice F.
C11_NoCutWithOpenSecondChoice ==
    Finished =>
        /\ Rostered("D") < target_d => ~CutWithSecond(cuts_f, "D")
        /\ Rostered("F") < target_f => ~CutWithSecond(cuts_d, "F")

\* no two pool rows of the sheet are signed up under one name
UniqueNames ==
    \A i, j \in PoolRows :
        LowerStrip(Strip(sheet[i].Name)) = LowerStrip(Strip(sheet[j].Name)) => i = j

C11_UniqueNamesOnly == UniqueNames => C11_NoCutWithOpenSecondChoice

----------------------------------------------------------------------------
(* C12 *)

Apart(m, n) == IF m >= n THEN m - n ELSE n - m

\* C12: Team A and Team B end with sizes that differ by at most 2: the rival
\* loop pins as many players on the one team as on the other, each of the two
\* snake drafts (Defense block, Forward block) gives the teams blocks whose
\* sizes differ by at most 1, and a team is its pinned players and its two
\* blocks.
C12_TeamSizesWithinTwo ==
    /\ Len(pre_team_a) = Len(pre_team_b)
    /\ Len(pre_team_a) = pair_index
    /\ pc \in {"drafted", "done"} =>
        /\ Apart(Len(d_a), Len(d_b)) <= 1
        /\ Apart(Len(f_a), Len(f_b)) <= 1
        /\ Len(d_a) + Len(d_b) = Len(selected_d)
        /\ Len(f_a) + Len(f_b) = Len(selected_f)
    /\ Finished =>
        /\ Len(team_a) = Len(pre_team_a) + Len(d_a) + Len(f_a)
        /\ Len(team_b) = Len(pre_team_b) + Len(d_b) + Len(f_b)
        /\ Apart(Len(team_a), Len(team_b)) <= 2

C12_Witness ==
    /\ Finished
    /\ pre_team_a # <<>>
    /\ Len(team_a) = Len(team_b) + 2
    /\ Len(selected_d) > 4
    /\ Len(selected_f) > 4

====
